---- MODULE Spec2Model ----
(***************************************************************************)
(* The comments dashboard (src/src/pages/Dashboard.tsx): its React state,  *)
(* the fetch-and-hydrate effect, the persistence effect, the derived views *)
(* (filtered, sorted, totalPages, paginated) and every event handler of    *)
(* the rendered page.                                                      *)
(*                                                                         *)
(* JavaScript strings are sequences of one-character strings, so that      *)
(* toLowerCase, includes, <, Number and String are computed and not        *)
(* looked up.  A number is an integer or NaN.  null (sortKey, line 50) is  *)
(* the empty sequence: sortKey is never the empty string (line 74 assigns  *)
(* only a truthy string) and lines 95, 112, 127, 341, 357 treat null and   *)
(* "" alike.                                                               *)
(*                                                                         *)
(* Beside the component's state: localStorage is the Preference Store,     *)
(* effectPending says that a render changed a dependency of the            *)
(* persistence effect and the effect has not run yet, reads and writes     *)
(* count the hydration reads and the persistence writes of the current     *)
(* page load, lastOp names the event handled last, left is the ViewState   *)
(* of the dashboard that was left for the profile page and has not been    *)
(* overwritten in the store since (<<>> otherwise).                        *)
(*                                                                         *)
(* route is the page that the router has mounted (App.tsx lines 12-14);    *)
(* profileLoading and user are the state of the profile page (App.tsx      *)
(* lines 62-63).  A page that is not mounted has no state: its variables   *)
(* are kept at their useState defaults, with no effect pending and no      *)
(* fetch in flight, and none of its actions is enabled.                    *)
(***************************************************************************)
EXTENDS Integers, Sequences, FiniteSets, TLC

VARIABLES comments, loading, loadingLocalStorage, error,
          search, page, pageSize, sortKey, sortOrder,
          localStorage, effectPending, reads, writes, lastOp, left,
          route, profileLoading, user

vars == <<comments, loading, loadingLocalStorage, error,
          search, page, pageSize, sortKey, sortOrder,
          localStorage, effectPending, reads, writes, lastOp, left,
          route, profileLoading, user>>

\* The state of the profile page and the route.
profileVars == <<route, profileLoading, user>>

ViewState == <<search, page, pageSize, sortKey, sortOrder>>

-----------------------------------------------------------------------------
(* Bounds: the longest fetched list, and the cap of the write counter *)

MaxComments == 26
MaxWrites == 1

-----------------------------------------------------------------------------
(* Strings and numbers *)

null == <<>>

NaN == -1

S_none == <<"n", "o", "n", "e">>
S_asc == <<"a", "s", "c">>
S_desc == <<"d", "e", "s", "c">>
S_postId == <<"p", "o", "s", "t", "I", "d">>
S_name == <<"n", "a", "m", "e">>
S_email == <<"e", "m", "a", "i", "l">>
S_id == <<"i", "d">>
S_body == <<"b", "o", "d", "y">>
S_NaN == <<"N", "a", "N">>

DigitChars == <<"0", "1", "2", "3", "4", "5", "6", "7", "8", "9">>

IsDigit(c) == \E d \in 1..10 : DigitChars[d] = c

DigitVal(c) == (CHOOSE d \in 1..10 : DigitChars[d] = c) - 1

RECURSIVE DecValue(_)
DecValue(s) ==
  IF s = <<>> THEN 0
  ELSE 10 * DecValue(SubSeq(s, 1, Len(s) - 1)) + DigitVal(s[Len(s)])

\* Number(s) for strings of decimal digits and letters (no sign, point,
\* exponent, blank or "Infinity"): the value of the digits, else NaN.
Number(s) ==
  IF \A i \in 1..Len(s) : IsDigit(s[i]) THEN DecValue(s) ELSE NaN

RECURSIVE DecString(_)
DecString(n) ==
  IF n < 10 THEN <<DigitChars[n + 1]>>
  ELSE DecString(n \div 10) \o <<DigitChars[(n % 10) + 1]>>

\* String(n) for a non-negative integer or NaN.
String(n) == IF n = NaN THEN S_NaN ELSE DecString(n)

\* UTF-16 code unit of the characters the model uses.
CharCode(c) ==
  CASE c = "@" -> 64
    [] c = "A" -> 65
    [] c = "B" -> 66
    [] c = "C" -> 67
    [] c = "a" -> 97
    [] c = "b" -> 98
    [] c = "c" -> 99
    [] c = "z" -> 122
    [] OTHER -> 48 + DigitVal(c)

LowerChar(c) ==
  CASE c = "A" -> "a"
    [] c = "B" -> "b"
    [] c = "C" -> "c"
    [] OTHER -> c

toLowerCase(s) == [i \in 1..Len(s) |-> LowerChar(s[i])]

includes(s, q) ==
  \E i \in 0..(Len(s) - Len(q)) : SubSeq(s, i + 1, i + Len(q)) = q

\* a < b on two strings: lexicographic by code unit.
StrLess(a, b) ==
  \E i \in 1..Len(b) :
    /\ i <= Len(a) + 1
    /\ \A j \in 1..(i - 1) : a[j] = b[j]
    /\ (i <= Len(a) => CharCode(a[i]) < CharCode(b[i]))

Min(a, b) == IF a < b THEN a ELSE b

Max(a, b) == IF a > b THEN a ELSE b

\* Math.max / Math.min: NaN if either argument is NaN.
MathMax(a, b) == IF a = NaN \/ b = NaN THEN NaN ELSE Max(a, b)

MathMin(a, b) == IF a = NaN \/ b = NaN THEN NaN ELSE Min(a, b)

\* a + b, a - b, a * b, a <= b, a >= b, a > b with NaN operands.
Plus(a, b) == IF a = NaN \/ b = NaN THEN NaN ELSE a + b

Minus(a, b) == IF a = NaN \/ b = NaN THEN NaN ELSE a - b

Times(a, b) == IF a = NaN \/ b = NaN THEN NaN ELSE a * b

Leq(a, b) == a # NaN /\ b # NaN /\ a <= b

Geq(a, b) == a # NaN /\ b # NaN /\ a >= b

Gt(a, b) == a # NaN /\ b # NaN /\ a > b

\* a === b on numbers: NaN equals nothing.
StrictEq(a, b) == a # NaN /\ b # NaN /\ a = b

\* Math.ceil(n / d) for n >= 0 and d a positive integer or NaN.
MathCeilDiv(n, d) == IF d = NaN THEN NaN ELSE (n + d - 1) \div d

\* seq.slice(start, end), start and end non-negative integers or NaN
\* (NaN converts to 0).
slice(seq, start, end) ==
  LET s == IF start = NaN THEN 0 ELSE Min(start, Len(seq))
      e == IF end = NaN THEN 0 ELSE Min(end, Len(seq))
  IN SubSeq(seq, s + 1, e)

-----------------------------------------------------------------------------
(* The fetched data *)

Names == << <<"b", "a">>, <<"A", "b">>, <<"a">>, <<"B", "a", "c">> >>

Emails == << <<"c", "@", "a">>, <<"a", "@", "b">>, <<"B", "@", "a">> >>

Bodies == << <<"a", "C", "b">>, <<"b", "b">>, <<"c">>, <<"a", "b">>, <<"A", "B">> >>

\* The i-th comment of the data source.
MkComment(i) ==
  [postId |-> ((7 - i) % 3) + 1,
   id |-> i,
   name |-> Names[((i - 1) % 4) + 1],
   email |-> Emails[((i - 1) % 3) + 1],
   body |-> Bodies[((i - 1) % 5) + 1]]

CommentList(n) == [i \in 1..n |-> MkComment(i)]

\* The responses the data source may give: the first 0, 1, 12 or
\* MaxComments comments.
CommentLists == {CommentList(n) : n \in {0, 1, 12, MaxComments}}

FetchErrors == {"Failed to fetch", "Failed to fetch comments", "Unexpected token"}

\* The responses of the users endpoint: no user, or one user.
UserLists == {<<>>, <<[id |-> 1]>>}

-----------------------------------------------------------------------------
(* Derived views, lines 101-124 *)

Matches(c, query) ==
  \E field \in {c.name, c.email, c.body} : includes(toLowerCase(field), query)

\* A filter that compares the query as typed.
filteredOf_CaseSensitive(cs, s) ==
  SelectSeq(cs, LAMBDA c : Matches(c, s))

filteredOf(cs, s) ==
  LET query == toLowerCase(s)
  IN SelectSeq(cs, LAMBDA c : Matches(c, query))

filtered == filteredOf(comments, search)

NumberFields == {S_postId, S_id}

StringFields == {S_name, S_email, S_body}

FieldValue(c, key) ==
  CASE key = S_postId -> c.postId
    [] key = S_id -> c.id
    [] key = S_name -> c.name
    [] key = S_email -> c.email
    [] key = S_body -> c.body

\* aVal < bVal for aVal = a[key], bVal = b[key]; a missing property is
\* undefined and undefined < undefined is false.
ValLess(a, b, key) ==
  IF key \in NumberFields THEN FieldValue(a, key) < FieldValue(b, key)
  ELSE IF key \in StringFields
       THEN StrLess(FieldValue(a, key), FieldValue(b, key))
       ELSE FALSE

\* The comparator of lines 113-120.
compare(a, b, key, order) ==
  IF ValLess(a, b, key) THEN (IF order = S_asc THEN -1 ELSE 1)
  ELSE IF ValLess(b, a, key) THEN (IF order = S_asc THEN 1 ELSE -1)
  ELSE 0

\* An unstable insertion: x goes before the elements it ties with.
SortInsert_Unstable(acc, x, key, order) ==
  LET before == {i \in 1..Len(acc) : compare(x, acc[i], key, order) <= 0}
      pos == IF before = {} THEN Len(acc) + 1
             ELSE CHOOSE i \in before : \A j \in before : i <= j
  IN SubSeq(acc, 1, pos - 1) \o <<x>> \o SubSeq(acc, pos, Len(acc))

\* Array.prototype.sort is stable: x goes before the first element it
\* compares below, after every element it ties with.
SortInsert(acc, x, key, order) ==
  LET before == {i \in 1..Len(acc) : compare(x, acc[i], key, order) < 0}
      pos == IF before = {} THEN Len(acc) + 1
             ELSE CHOOSE i \in before : \A j \in before : i <= j
  IN SubSeq(acc, 1, pos - 1) \o <<x>> \o SubSeq(acc, pos, Len(acc))

RECURSIVE StableSort(_, _, _)
StableSort(seq, key, order) ==
  IF seq = <<>> THEN <<>>
  ELSE SortInsert(StableSort(SubSeq(seq, 1, Len(seq) - 1), key, order),
                  seq[Len(seq)], key, order)

sortedOf(f, key, order) ==
  IF key = null \/ order = S_none THEN f ELSE StableSort(f, key, order)

sorted == sortedOf(filtered, sortKey, sortOrder)

totalPagesOf(n, ps) == MathCeilDiv(n, ps)

totalPages == totalPagesOf(Len(sorted), pageSize)

\* paginatedOf with pages counted from 0.
paginatedOf_ZeroBased(seq, p, ps) ==
  slice(seq, Times(p, ps), Times(Plus(p, 1), ps))

paginatedOf(seq, p, ps) ==
  slice(seq, Times(Minus(p, 1), ps), Times(p, ps))

paginated == paginatedOf(sorted, page, pageSize)

-----------------------------------------------------------------------------
(* The Preference Store (localStorage): a function from the keys that are  *)
(* present to their strings.                                               *)

Keys == {"search", "page", "pageSize", "sortKey", "sortOrder"}

\* if (saved) ... : getItem returned a non-empty string.
Saved(store, k) == k \in DOMAIN store /\ store[k] # <<>>

\* Persisted that writes null as the string "null" instead of "".
Persisted_NullText(s, p, ps, sk, so) ==
  [k \in Keys |->
     CASE k = "search" -> s
       [] k = "page" -> String(p)
       [] k = "pageSize" -> String(ps)
       [] k = "sortKey" -> (IF sk = null THEN <<"n", "u", "l", "l">> ELSE sk)
       [] k = "sortOrder" -> so]

\* Lines 92-96.
Persisted(s, p, ps, sk, so) ==
  [k \in Keys |->
     CASE k = "search" -> s
       [] k = "page" -> String(p)
       [] k = "pageSize" -> String(ps)
       [] k = "sortKey" -> (IF sk = null THEN <<>> ELSE sk)
       [] k = "sortOrder" -> so]

\* What a store may hold when the page is opened.
StoredSearch == {<<>>, <<"a", "b">>, <<"z">>}

StoredPage == {<<"2">>, <<"7">>, <<"a", "b">>}

StoredPageSize == {<<"3">>, <<"2", "5">>, <<"3", "7">>, <<"a", "b">>}

StoredSortKey == {<<>>, S_name, S_postId, <<"a", "b">>}

StoredSortOrder == {S_asc, S_desc, S_none, <<"a", "b">>}

Options(S) == {{}} \cup {{s} : s \in S}

StoreOf(o) ==
  [k \in {j \in Keys : o[j] # {}} |-> CHOOSE s \in o[k] : TRUE]

InitialStores ==
  {StoreOf([search |-> a, page |-> b, pageSize |-> c, sortKey |-> d, sortOrder |-> e]) :
     a \in Options(StoredSearch), b \in Options(StoredPage),
     c \in Options(StoredPageSize), d \in Options(StoredSortKey),
     e \in Options(StoredSortOrder)}

-----------------------------------------------------------------------------
(* Initial state: the useState defaults of lines 43-51, both effects of    *)
(* the first render still to run, the fetch in flight.                     *)

NoError == "null"

PageSizeOptions == {10, 25, 50, 100}

SortKeys == {S_postId, S_name, S_email}

TypedSearches == {<<>>, <<"a", "b">>, <<"B">>, <<"z">>}

\* The pages of the router, App.tsx lines 12-14 ("/" and "/dashboard" both
\* mount the dashboard).
Routes == {"Dashboard", "Profile"}

DashboardMounted == route = "Dashboard"

ProfileMounted == route = "Profile"

\* The page is loaded at either route: the mounted page has its useState
\* defaults, its effects still to run and its fetch in flight.
Init ==
  /\ route \in Routes
  /\ comments = <<>>
  /\ loading = TRUE
  /\ loadingLocalStorage = TRUE
  /\ error = NoError
  /\ search = <<>>
  /\ page = 1
  /\ pageSize = 10
  /\ sortKey = null
  /\ sortOrder = S_none
  /\ localStorage \in InitialStores
  /\ effectPending = DashboardMounted
  /\ reads = 0
  /\ writes = 0
  /\ lastOp = "mount"
  /\ left = <<>>
  /\ profileLoading = TRUE
  /\ user = null

-----------------------------------------------------------------------------
(* The persistence effect, lines 90-98.  React runs it after a render in   *)
(* which one of its dependencies changed, before the next event.           *)

\* The effect without its guard of line 91.
MayWrite_Unguarded == TRUE

\* Line 91.
MayWrite == ~loadingLocalStorage

PersistEffect ==
  /\ DashboardMounted
  /\ effectPending
  /\ effectPending' = FALSE
  /\ IF MayWrite
     THEN /\ localStorage' = [k \in DOMAIN localStorage \cup Keys |->
                                IF k \in Keys
                                THEN Persisted(search, page, pageSize, sortKey, sortOrder)[k]
                                ELSE localStorage[k]]
          /\ writes' = Min(writes + 1, MaxWrites)
          /\ left' = <<>>
     ELSE UNCHANGED <<localStorage, writes, left>>
  /\ UNCHANGED <<comments, loading, loadingLocalStorage, error,
                 search, page, pageSize, sortKey, sortOrder, reads, lastOp,
                 profileVars>>

-----------------------------------------------------------------------------
(* fetchData, lines 56-84 *)

\* Lines 65-75: the ViewState after hydration from a store.
HydratedSearch(store) ==
  IF Saved(store, "search") THEN store["search"] ELSE search

HydratedPage(store) ==
  IF Saved(store, "page") THEN Number(store["page"]) ELSE page

\* A hydration that reads the page size from the key "page".
HydratedPageSize_FromPage(store) ==
  IF Saved(store, "page") THEN Number(store["page"]) ELSE pageSize

HydratedPageSize(store) ==
  IF Saved(store, "pageSize") THEN Number(store["pageSize"]) ELSE pageSize

HydratedSortKey(store) ==
  IF Saved(store, "sortKey") THEN store["sortKey"] ELSE sortKey

HydratedSortOrder(store) ==
  IF Saved(store, "sortOrder") THEN store["sortOrder"] ELSE sortOrder

\* The fetch resolved with an OK response whose body parsed to data.
FetchOk(data) ==
  /\ DashboardMounted
  /\ loading
  /\ ~effectPending
  /\ comments' = data
  /\ search' = HydratedSearch(localStorage)
  /\ page' = HydratedPage(localStorage)
  /\ pageSize' = HydratedPageSize(localStorage)
  /\ sortKey' = HydratedSortKey(localStorage)
  /\ sortOrder' = HydratedSortOrder(localStorage)
  /\ reads' = reads + 1
  /\ error' = NoError
  /\ loading' = FALSE
  /\ loadingLocalStorage' = FALSE
  /\ effectPending' = TRUE
  /\ lastOp' = "fetchOk"
  /\ UNCHANGED <<localStorage, writes, left, profileVars>>

\* The fetch rejected, the response was not OK, or its body did not parse.
FetchFail(msg) ==
  /\ DashboardMounted
  /\ loading
  /\ ~effectPending
  /\ error' = msg
  /\ loading' = FALSE
  /\ loadingLocalStorage' = FALSE
  /\ effectPending' = TRUE
  /\ lastOp' = "fetchFail"
  /\ UNCHANGED <<comments, search, page, pageSize, sortKey, sortOrder,
                 localStorage, reads, writes, left, profileVars>>

\* The useState defaults of the dashboard, lines 43-51, with the counters
\* of a new page load; mounted says whether its effects are to run.
DashboardFresh(mounted) ==
  /\ comments' = <<>>
  /\ loading' = TRUE
  /\ loadingLocalStorage' = TRUE
  /\ error' = NoError
  /\ search' = <<>>
  /\ page' = 1
  /\ pageSize' = 10
  /\ sortKey' = null
  /\ sortOrder' = S_none
  /\ effectPending' = mounted
  /\ reads' = 0
  /\ writes' = 0

\* "Try Again", line 182: the page is loaded anew; the store survives.
TryAgain ==
  /\ DashboardMounted
  /\ ~loading /\ ~loadingLocalStorage /\ error # NoError /\ ~effectPending
  /\ DashboardFresh(TRUE)
  /\ lastOp' = "reload"
  /\ UNCHANGED <<localStorage, left, profileVars>>

\* "View Profile", line 209: navigate("/profile") unmounts the dashboard
\* and mounts the profile page, whose fetch starts.
ViewProfile ==
  /\ DashboardMounted
  /\ ~loading /\ ~loadingLocalStorage /\ error = NoError /\ ~effectPending
  /\ DashboardFresh(FALSE)
  /\ route' = "Profile"
  /\ profileLoading' = TRUE
  /\ user' = null
  /\ lastOp' = "viewProfile"
  /\ left' = ViewState
  /\ UNCHANGED localStorage

-----------------------------------------------------------------------------
(* The profile page, App.tsx lines 61-122 *)

\* fetchUser, App.tsx lines 67-77: the body parsed to data; user becomes
\* data[0], which is undefined (as falsy as null) for an empty list.  A user
\* u is held as <<u>>.
ProfileFetchOk(data) ==
  /\ ProfileMounted
  /\ profileLoading
  /\ user' = (IF Len(data) > 0 THEN <<data[1]>> ELSE null)
  /\ profileLoading' = FALSE
  /\ lastOp' = "profileOk"
  /\ UNCHANGED <<comments, loading, loadingLocalStorage, error,
                 search, page, pageSize, sortKey, sortOrder,
                 localStorage, effectPending, reads, writes, left, route>>

\* The fetch rejected or its body did not parse, App.tsx lines 72-76.
ProfileFetchFail ==
  /\ ProfileMounted
  /\ profileLoading
  /\ profileLoading' = FALSE
  /\ lastOp' = "profileFail"
  /\ UNCHANGED <<comments, loading, loadingLocalStorage, error,
                 search, page, pageSize, sortKey, sortOrder,
                 localStorage, effectPending, reads, writes, left, route, user>>

\* "Try Again" of the profile page, App.tsx lines 92-98: the page is loaded
\* anew at the same route; the store survives.
ProfileTryAgain ==
  /\ ProfileMounted
  /\ ~profileLoading
  /\ user = null
  /\ profileLoading' = TRUE
  /\ lastOp' = "profileReload"
  /\ UNCHANGED <<comments, loading, loadingLocalStorage, error,
                 search, page, pageSize, sortKey, sortOrder,
                 localStorage, effectPending, reads, writes, left, route, user>>

\* "Back to Dashboard", App.tsx line 113, is rendered when a user is loaded
\* (App.tsx lines 81, 92): navigate("/dashboard") unmounts the profile page
\* and mounts a new dashboard: fresh state, the same store.
BackToDashboard ==
  /\ ProfileMounted
  /\ ~profileLoading
  /\ user # null
  /\ DashboardFresh(TRUE)
  /\ route' = "Dashboard"
  /\ profileLoading' = TRUE
  /\ user' = null
  /\ lastOp' = "remount"
  /\ UNCHANGED <<localStorage, left>>

-----------------------------------------------------------------------------
(* Event handlers of the rendered dashboard, lines 195-577 *)

\* Lines 156 and 169: the dashboard itself is on screen.
Rendered ==
  DashboardMounted /\ ~loading /\ ~loadingLocalStorage /\ error = NoError /\ ~effectPending

\* The state setters of one handler, batched into one render.
SetView(s, p, ps, sk, so, op) ==
  /\ search' = s
  /\ page' = p
  /\ pageSize' = ps
  /\ sortKey' = sk
  /\ sortOrder' = so
  /\ effectPending' = (<<s, p, ps, sk, so>> # ViewState)
  /\ lastOp' = op
  /\ UNCHANGED <<comments, loading, loadingLocalStorage, error,
                 localStorage, reads, writes, left, profileVars>>

\* Input onChange, lines 304-307.
InputOnChange(q) ==
  /\ Rendered
  /\ q # search
  /\ SetView(q, 1, pageSize, sortKey, sortOrder, "type")

\* Select onValueChange, lines 317-320.
SelectOnValueChange(val) ==
  /\ Rendered
  /\ SetView(search, 1, Number(val), sortKey, sortOrder, "pageSize")

\* A reset that forgets setPageSize(10).
handleReset_KeepsPageSize ==
  /\ Rendered
  /\ SetView(<<>>, 1, pageSize, null, S_none, "reset")

\* handleReset, lines 148-154.
handleReset ==
  /\ Rendered
  /\ SetView(<<>>, 1, 10, null, S_none, "reset")

\* The search badge's x, line 350.
ClearSearchBadge ==
  /\ Rendered
  /\ search # <<>>
  /\ SetView(<<>>, page, pageSize, sortKey, sortOrder, "clearSearchBadge")

\* The sort badge's x, lines 361-364.
ClearSortBadge ==
  /\ Rendered
  /\ sortKey # null
  /\ SetView(search, page, pageSize, null, S_none, "clearSortBadge")

\* The "Clear search" button, lines 440-444.
ClearSearchButton ==
  /\ Rendered
  /\ search # <<>>
  /\ Len(paginated) = 0
  /\ SetView(<<>>, page, pageSize, sortKey, sortOrder, "clearSearchButton")

\* handleSort, lines 126-139: the sort key and order after a click on key.
SortKeyAfter(sk, so, key) ==
  IF sk # key THEN key
  ELSE IF so = S_none THEN sk
  ELSE IF so = S_asc THEN sk
  ELSE null

\* A two-state toggle: descending goes back to ascending.
SortOrderAfter_Toggle(sk, so, key) ==
  IF sk # key THEN S_asc
  ELSE IF so = S_asc THEN S_desc
  ELSE S_asc

SortOrderAfter(sk, so, key) ==
  IF sk # key THEN S_asc
  ELSE IF so = S_none THEN S_asc
  ELSE IF so = S_asc THEN S_desc
  ELSE S_none

handleSort(key) ==
  /\ Rendered
  /\ SetView(search, 1, pageSize,
             SortKeyAfter(sortKey, sortOrder, key),
             SortOrderAfter(sortKey, sortOrder, key), "sort")

\* The pager, lines 496-575, is on screen when totalPages > 1.  Its
\* handlers use the totalPages (tp) of the render they belong to.
PagerShown(tp) == Rendered /\ Gt(tp, 1)

\* The totalPages of the render on screen, if the dashboard is on screen.
RenderedTotalPages == IF Rendered THEN {totalPages} ELSE {}

FirstPage(tp) ==
  /\ PagerShown(tp)
  /\ ~StrictEq(page, 1)
  /\ SetView(search, 1, pageSize, sortKey, sortOrder, "first")

\* Line 518: (p) => Math.max(p - 1, 1).
PreviousTarget(p) == MathMax(Minus(p, 1), 1)

\* Line 556: (p) => Math.min(p + 1, totalPages).
NextTarget(p, tp) == MathMin(Plus(p, 1), tp)

PreviousPage(tp) ==
  /\ PagerShown(tp)
  /\ ~StrictEq(page, 1)
  /\ SetView(search, PreviousTarget(page), pageSize, sortKey, sortOrder, "previous")

\* pageNum without the branch for the last pages (line 533).
pageNum_NoEndWindow(i, p, tp) ==
  IF Leq(tp, 5) THEN i + 1
  ELSE IF Leq(p, 3) THEN i + 1
  ELSE Plus(Minus(p, 2), i)

\* Lines 527-537: the number on the i-th page button.
pageNum(i, p, tp) ==
  IF Leq(tp, 5) THEN i + 1
  ELSE IF Leq(p, 3) THEN i + 1
  ELSE IF Geq(p, Minus(tp, 2)) THEN tp - 4 + i
  ELSE Plus(Minus(p, 2), i)

NumberedPage(i, tp) ==
  /\ PagerShown(tp)
  /\ i < Min(5, tp)
  /\ SetView(search, pageNum(i, page, tp), pageSize, sortKey, sortOrder, "number")

NextPage(tp) ==
  /\ PagerShown(tp)
  /\ ~StrictEq(page, tp)
  /\ SetView(search, NextTarget(page, tp), pageSize, sortKey, sortOrder, "next")

LastPage(tp) ==
  /\ PagerShown(tp)
  /\ ~StrictEq(page, tp)
  /\ SetView(search, tp, pageSize, sortKey, sortOrder, "last")

-----------------------------------------------------------------------------

Next ==
  \/ PersistEffect
  \/ \E data \in CommentLists : FetchOk(data)
  \/ \E msg \in FetchErrors : FetchFail(msg)
  \/ TryAgain
  \/ ViewProfile
  \/ \E data \in UserLists : ProfileFetchOk(data)
  \/ ProfileFetchFail
  \/ ProfileTryAgain
  \/ BackToDashboard
  \/ \E q \in TypedSearches : InputOnChange(q)
  \/ \E size \in PageSizeOptions : SelectOnValueChange(String(size))
  \/ handleReset
  \/ ClearSearchBadge
  \/ ClearSortBadge
  \/ ClearSearchButton
  \/ \E key \in SortKeys : handleSort(key)
  \/ \E tp \in RenderedTotalPages : FirstPage(tp)
  \/ \E tp \in RenderedTotalPages : PreviousPage(tp)
  \/ \E tp \in RenderedTotalPages : \E i \in 0..4 : NumberedPage(i, tp)
  \/ \E tp \in RenderedTotalPages : NextPage(tp)
  \/ \E tp \in RenderedTotalPages : LastPage(tp)

Spec == Init /\ [][Next]_vars

-----------------------------------------------------------------------------
(* Properties *)

Loaded == ~loading /\ ~loadingLocalStorage

\* C1: in every reachable state, sortKey is none if and only if sortOrder
\* is none.
C1_SortKeyIffSortOrder == (sortKey = null) <=> (sortOrder = S_none)

\* C2: once loading has finished, page is an integer with
\* 1 <= page <= max(1, ceil(filteredCount / pageSize)).
C2_PageInRange ==
  Loaded =>
    /\ page # NaN
    /\ 1 <= page
    /\ Leq(page, MathMax(1, MathCeilDiv(Len(filtered), pageSize)))

\* C3: in every reachable state pageSize is one of 10, 25, 50, 100.
C3_PageSizeAllowed == pageSize \in PageSizeOptions

IsNumeric(s) == s # <<>> /\ \A i \in 1..Len(s) : IsDigit(s[i])

\* C4: hydration validates each stored field on its own: a missing or
\* malformed value leaves the field at its default, a well-formed one is
\* restored.  (Right after the fetch resolved, before the persistence
\* effect, localStorage is still the store that was read.)
C4_HydrationValidates ==
  (lastOp = "fetchOk" /\ effectPending) =>
    /\ search = (IF "search" \in DOMAIN localStorage THEN localStorage["search"] ELSE <<>>)
    /\ ("page" \notin DOMAIN localStorage \/ ~IsNumeric(localStorage["page"])) => page = 1
    /\ ("page" \in DOMAIN localStorage /\ IsNumeric(localStorage["page"]))
          => page = Number(localStorage["page"])
    /\ ("pageSize" \notin DOMAIN localStorage \/ ~IsNumeric(localStorage["pageSize"]))
          => pageSize = 10
    /\ ("pageSize" \in DOMAIN localStorage /\ IsNumeric(localStorage["pageSize"])
          /\ Number(localStorage["pageSize"]) \in PageSizeOptions)
          => pageSize = Number(localStorage["pageSize"])
    /\ sortKey = (IF "sortKey" \in DOMAIN localStorage /\ localStorage["sortKey"] \in SortKeys
                  THEN localStorage["sortKey"] ELSE null)
    /\ sortOrder = (IF "sortOrder" \in DOMAIN localStorage
                       /\ localStorage["sortOrder"] \in {S_asc, S_desc, S_none}
                    THEN localStorage["sortOrder"] ELSE S_none)

\* C5: every operation on the rendered dashboard that changes the search
\* query leaves page = 1.
C5_SearchChangeResetsPage ==
  [][(Rendered /\ search' # search) => page' = 1]_vars

\* C6: a click on a sort header follows the three-state cycle: a key other
\* than the current one gives (key, asc); the current key goes from asc to
\* desc and from desc to (none, none); page becomes 1; and from (none, none)
\* three clicks on the same key lead back to (none, none).
SortClick(st, k) == <<SortKeyAfter(st[1], st[2], k), SortOrderAfter(st[1], st[2], k)>>

C6_SortCycle ==
  /\ [][\A k \in SortKeys :
          handleSort(k) =>
            /\ page' = 1
            /\ (sortKey # k) => (sortKey' = k /\ sortOrder' = S_asc)
            /\ (sortKey = k /\ sortOrder = S_asc) => (sortKey' = k /\ sortOrder' = S_desc)
            /\ (sortKey = k /\ sortOrder = S_desc) => (sortKey' = null /\ sortOrder' = S_none)]_vars
  /\ [](\A k \in SortKeys :
          (sortKey = null /\ sortOrder = S_none) =>
             SortClick(SortClick(SortClick(<<sortKey, sortOrder>>, k), k), k) = <<null, S_none>>)

\* The third click of a cycle has just been handled.
C6_Witness ==
  lastOp = "sort" /\ sortKey = null /\ sortOrder = S_none /\ page = 1 /\ Len(comments) > 0

\* C7: totalPages is at least 1 once the data is loaded, also when nothing
\* matches; when something matches it is ceil(sortedCount / pageSize).
C7_TotalPagesAtLeastOne ==
  (Loaded /\ error = NoError) =>
    /\ Geq(totalPages, 1)
    /\ Len(sorted) > 0 => totalPages = MathCeilDiv(Len(sorted), pageSize)

RECURSIVE ConcatPages(_, _, _)
ConcatPages(seq, ps, n) ==
  IF n = 0 THEN <<>>
  ELSE ConcatPages(seq, ps, n - 1) \o paginatedOf(seq, n, ps)

\* C8: for the sorted sequence and every allowed page size, the pages
\* 1..totalPages concatenated are the sorted sequence, the last page of a
\* non-empty sequence has between 1 and pageSize elements, and 12 elements
\* at page size 10 give 2 pages, the second of 2 elements.
C8_PagesPartitionSorted ==
  LET seq == sorted
  IN \A ps \in PageSizeOptions :
       LET tp == totalPagesOf(Len(seq), ps)
           lastPage == paginatedOf(seq, tp, ps)
       IN /\ ConcatPages(seq, ps, tp) = seq
          /\ seq # <<>> => (Len(lastPage) >= 1 /\ Len(lastPage) <= ps)
          /\ (Len(seq) = 12 /\ ps = 10) =>
               (tp = 2 /\ Len(paginatedOf(seq, 2, ps)) = 2)

\* Page 2 of 12 sorted comments at page size 10 is on screen.
C8_Witness ==
  /\ Rendered
  /\ lastOp \in {"next", "last", "number"}
  /\ sortKey \in SortKeys /\ sortOrder = S_desc
  /\ Len(sorted) = 12 /\ pageSize = 10 /\ page = 2
  /\ Len(paginated) = 2

\* C9: after loading, once the persistence effect has run, the five keys of
\* the store hold the current ViewState (numbers in decimal, a null sortKey
\* as ""), and every change of ViewState schedules the effect.
C9_StoreMirrorsViewState ==
  /\ []((~loadingLocalStorage /\ ~effectPending) =>
          /\ Keys \subseteq DOMAIN localStorage
          /\ localStorage["search"] = search
          /\ Number(localStorage["page"]) = page
          /\ Number(localStorage["pageSize"]) = pageSize
          /\ localStorage["sortKey"] = (IF sortKey = null THEN <<>> ELSE sortKey)
          /\ localStorage["sortOrder"] = sortOrder)
  /\ [][(~loadingLocalStorage' /\ ViewState' # ViewState) => effectPending']_vars

\* A sort click was persisted: the store holds (name, desc) and page 1.
C9_Witness ==
  /\ Rendered
  /\ lastOp = "sort"
  /\ sortKey = S_name /\ sortOrder = S_desc
  /\ localStorage["sortKey"] = S_name /\ localStorage["sortOrder"] = S_desc
  /\ localStorage["page"] = <<"1">>

\* C10 as claimed: in every run the store is read for hydration exactly
\* once, and nothing is written before that read.
C10_ReadExactlyOnceEveryRun ==
  /\ Loaded => reads = 1
  /\ writes > 0 => reads = 1

\* C10 as amended: the store is read for hydration at most once per run,
\* exactly once when the fetch succeeded, never when it failed, only when
\* the fetch completes;
\* nothing is written while the fetch is in flight, and in a run whose fetch
\* succeeded nothing is written before the read; the persistence effect
\* never changes ViewState.
C10_HydrationOnce ==
  /\ [](reads <= 1)
  /\ []((Loaded /\ error = NoError) => reads = 1)
  /\ []((Loaded /\ error # NoError) => reads = 0)
  /\ [](reads = 1 => Loaded)
  /\ [](writes > 0 => Loaded)
  /\ []((writes > 0 /\ error = NoError) => reads = 1)
  /\ [][reads' > reads => (loading /\ ~loading' /\ writes = 0)]_vars
  /\ [][localStorage' # localStorage => (ViewState' = ViewState /\ ~effectPending')]_vars

\* Hydration restored a stored page and the effect then wrote it back.
C10_Witness ==
  /\ reads = 1 /\ writes = 1 /\ lastOp = "fetchOk" /\ ~effectPending
  /\ page = 7 /\ localStorage["page"] = <<"7">>

Range(seq) == {seq[i] : i \in DOMAIN seq}

PosIn(seq, x) == CHOOSE i \in DOMAIN seq : seq[i] = x

\* C11: sorted is a permutation of filtered; with no sort key it is filtered
\* itself; with a key and order asc (desc) it is non-decreasing
\* (non-increasing) by that key, and comments with equal keys keep the
\* order they have in filtered.
C11_SortedIsStablePermutation ==
  LET f == filtered
      s == sorted
      tie(a, b) == ~ValLess(a, b, sortKey) /\ ~ValLess(b, a, sortKey)
  IN /\ Len(s) = Len(f)
     /\ Range(s) = Range(f)
     /\ Cardinality(Range(s)) = Len(s)
     /\ sortKey = null => s = f
     /\ (sortKey \in SortKeys /\ sortOrder = S_asc) =>
          \A i \in 1..(Len(s) - 1) : ~ValLess(s[i + 1], s[i], sortKey)
     /\ (sortKey \in SortKeys /\ sortOrder = S_desc) =>
          \A i \in 1..(Len(s) - 1) : ~ValLess(s[i], s[i + 1], sortKey)
     /\ (sortKey \in SortKeys /\ sortOrder \in {S_asc, S_desc}) =>
          \A i \in 1..(Len(s) - 1) :
            tie(s[i], s[i + 1]) => PosIn(f, s[i]) < PosIn(f, s[i + 1])

\* A search result that leaves out some comments is shown sorted by postId,
\* descending, with ties.
C11_Witness ==
  /\ Rendered
  /\ lastOp = "sort"
  /\ sortKey = S_postId /\ sortOrder = S_desc
  /\ search # <<>>
  /\ Len(filtered) < Len(comments)
  /\ Len(sorted) >= 6
  /\ sorted # filtered

\* q occurs in field when case is ignored.
ContainsIgnoringCase(field, q) ==
  \E i \in 0..(Len(field) - Len(q)) :
    \A k \in 1..Len(q) : LowerChar(field[i + k]) = LowerChar(q[k])

\* C12: filtered holds, in source order, exactly the comments whose name,
\* email or body contains the search query when case is ignored; with an
\* empty query it is the whole list.
C12_FilteredIsMatchingSubsequence ==
  LET f == filtered
  IN /\ \A i \in DOMAIN comments :
          (comments[i] \in Range(f)) <=>
             \/ ContainsIgnoringCase(comments[i].name, search)
             \/ ContainsIgnoringCase(comments[i].email, search)
             \/ ContainsIgnoringCase(comments[i].body, search)
     /\ Range(f) \subseteq Range(comments)
     /\ \A i \in 1..(Len(f) - 1) : PosIn(comments, f[i]) < PosIn(comments, f[i + 1])
     /\ search = <<>> => f = comments

\* The typed query "ab" keeps some comments, one of them for its name "Ab",
\* and drops others.
C12_Witness ==
  /\ Rendered
  /\ lastOp = "type"
  /\ search = <<"a", "b">>
  /\ Len(filtered) > 0 /\ Len(filtered) < Len(comments)
  /\ \E c \in Range(filtered) :
       c.name = <<"A", "b">> /\ ~includes(c.email, search) /\ ~includes(c.body, search)

PagerStep(tp) ==
  \/ FirstPage(tp)
  \/ PreviousPage(tp)
  \/ \E i \in 0..4 : NumberedPage(i, tp)
  \/ NextPage(tp)
  \/ LastPage(tp)

\* C13: from a page in [1, max(1, totalPages)], First, Previous, Next, Last
\* and every numbered button set page to a value in [1, totalPages];
\* Previous at page 1 gives 1 and Next at the last page gives the last page;
\* the numbered buttons on screen carry page numbers in [1, totalPages],
\* and away from both ends of more than 5 pages they are page - 2 .. page + 2.
C13_PagerStaysInRange ==
  /\ [][(lastOp' \in {"first", "previous", "number", "next", "last"}) =>
          \A tp \in RenderedTotalPages :
            (/\ page # NaN /\ 1 <= page /\ Leq(page, MathMax(1, tp))
             /\ PagerStep(tp)) =>
               (page' # NaN /\ 1 <= page' /\ page' <= tp)]_vars
  /\ [](\A tp \in RenderedTotalPages :
          PagerShown(tp) =>
            /\ PreviousTarget(1) = 1
            /\ NextTarget(tp, tp) = tp
            /\ (page # NaN /\ 1 <= page /\ page <= tp) =>
                 \A i \in 0..(Min(5, tp) - 1) :
                   /\ 1 <= pageNum(i, page, tp) /\ pageNum(i, page, tp) <= tp
                   /\ (tp > 5 /\ 3 < page /\ page < tp - 2) =>
                        pageNum(i, page, tp) = page - 2 + i)

\* A numbered button led to a page away from both ends of more than 5
\* pages: the buttons now on screen are page - 2 .. page + 2.
C13_Witness ==
  /\ Rendered
  /\ lastOp = "number"
  /\ pageSize = 3
  /\ Gt(totalPages, 6)
  /\ 3 < page /\ page < totalPages - 2

\* A numbered button of the last window of more than 5 pages led to the
\* last page.
C13_WitnessEndWindow ==
  /\ lastOp = "number"
  /\ pageSize = 3
  /\ Gt(totalPages, 5)
  /\ page = totalPages

\* C14: from any ViewState, reset gives search "", page 1, page size 10, no
\* sort key and no sort order; as long as only resets follow (lastOp stays
\* "reset": a second reset is a step that changes nothing) the ViewState
\* stays at these defaults.
C14_ResetRestoresDefaults ==
  /\ [][handleReset =>
          (search' = <<>> /\ page' = 1 /\ pageSize' = 10
             /\ sortKey' = null /\ sortOrder' = S_none)]_vars
  /\ [](lastOp = "reset" => ViewState = <<<<>>, 1, 10, null, S_none>>)
  /\ [][(lastOp = "reset" /\ lastOp' = "reset") => ViewState' = ViewState]_vars

\* Reset was clicked on a view with a search, page size 25 and a sort: the
\* store still holds them, the ViewState is back at its defaults.
C14_Witness ==
  /\ lastOp = "reset" /\ effectPending
  /\ ViewState = <<<<>>, 1, 10, null, S_none>>
  /\ localStorage["search"] # <<>>
  /\ localStorage["pageSize"] = <<"2", "5">>
  /\ localStorage["sortKey"] = S_email /\ localStorage["sortOrder"] = S_desc

\* C15: the ViewState that a dashboard had when it was left, and that its
\* persistence effect wrote to the store, is the ViewState that the next
\* dashboard has after a successful fetch and hydration, field by field.
C15_PersistHydrateRoundTrip ==
  (lastOp = "fetchOk" /\ left # <<>>) => ViewState = left

\* A view with a search, page 2, page size 25 and a descending sort was
\* left, and the next dashboard has just hydrated it.
C15_Witness ==
  /\ lastOp = "fetchOk" /\ effectPending
  /\ left = <<<<"B">>, 2, 25, S_email, S_desc>>
  /\ ViewState = left

\* The default view, with its empty search and (none, none) sort, was left
\* and hydrated again.
C15_WitnessDefaults ==
  /\ lastOp = "fetchOk" /\ effectPending
  /\ left = <<<<>>, 1, 10, null, S_none>>
  /\ ViewState = left

\* C16: when the fetch has failed, the run does not hydrate and no step
\* changes a value that the store holds under search, page, pageSize,
\* sortKey or sortOrder.
C16_FailedFetchKeepsStore ==
  [][(error' # NoError) =>
       /\ reads' = 0
       /\ ViewState' = <<<<>>, 1, 10, null, S_none>>
       /\ \A k \in Keys \cap DOMAIN localStorage : localStorage'[k] = localStorage[k]]_vars

====
